---- MODULE Spec2Model ----
(***************************************************************************)
(* The safe dynamic query gateway of the Pagila MCP server:                *)
(*   src/src/tools.py     run_safe_query, visual_report, FORBIDDEN, and    *)
(*                        the catalog of fixed reports                     *)
(*   src/src/database.py  get_engine, get_session_factory, get_db_context  *)
(*                                                                         *)
(* Python strings that the code inspects (sql, lowered) are sequences of   *)
(* one-character strings, so that lower(), startswith() and the `in`       *)
(* substring test are computed character by character.  Strings the code   *)
(* only builds and returns (messages, titles, markdown) are TLA+ strings,  *)
(* with the accented letters of the source written without their accent.   *)
(***************************************************************************)
EXTENDS Integers, Sequences, FiniteSets, TLC

(***************************************************************************)
(* Bounds of the model.                                                    *)
(***************************************************************************)
\* concurrent invocations in flight (ConcSpec)
NCalls == 2
\* a caller-supplied statement is a concatenation of at most MaxPieces pieces
MaxPieces == 2
\* rows of a Query Result returned by the store
MaxRows == 2
\* how far the store's sequence may advance before the model stops it
MaxNextval == 1

Calls == 1 .. NCalls

(***************************************************************************)
(* Characters and Python's str methods.                                    *)
(***************************************************************************)
DigitChars == <<"0","1","2","3","4","5","6","7","8","9">>

\* str.lower() on one character
LowerChar(c) ==
    CASE c = "A" -> "a" [] c = "B" -> "b" [] c = "C" -> "c" [] c = "D" -> "d"
      [] c = "E" -> "e" [] c = "F" -> "f" [] c = "G" -> "g" [] c = "H" -> "h"
      [] c = "I" -> "i" [] c = "J" -> "j" [] c = "K" -> "k" [] c = "L" -> "l"
      [] c = "M" -> "m" [] c = "N" -> "n" [] c = "O" -> "o" [] c = "P" -> "p"
      [] c = "Q" -> "q" [] c = "R" -> "r" [] c = "S" -> "s" [] c = "T" -> "t"
      [] c = "U" -> "u" [] c = "V" -> "v" [] c = "W" -> "w" [] c = "X" -> "x"
      [] c = "Y" -> "y" [] c = "Z" -> "z" [] OTHER -> c

\* str.lower()
lower(s) == [k \in 1 .. Len(s) |-> LowerChar(s[k])]

\* str.startswith(prefix)
startswith(s, prefix) ==
    /\ Len(s) >= Len(prefix)
    /\ SubSeq(s, 1, Len(prefix)) = prefix

\* `word in s` on strings: word occurs as a substring of s
contains(s, word) ==
    \E k \in 1 .. (Len(s) - Len(word) + 1) :
        SubSeq(s, k, k + Len(word) - 1) = word

\* str(n) / f"{n}" for an int n
RECURSIVE int_str(_)
int_str(n) ==
    IF n < 0 THEN <<"-">> \o int_str(0 - n)
    ELSE IF n < 10 THEN <<DigitChars[n + 1]>>
    ELSE int_str(n \div 10) \o <<DigitChars[(n % 10) + 1]>>

(***************************************************************************)
(* Words of the gate (tools.py 229-245).                                   *)
(***************************************************************************)
SELECT_WORD == <<"s","e","l","e","c","t">>
LIMIT_WORD == <<"l","i","m","i","t">>
LIMIT_SUFFIX == <<" ","L","I","M","I","T"," ">>

FORBIDDEN_short ==
    << <<"i","n","s","e","r","t">>,
       <<"u","p","d","a","t","e">>,
       <<"d","e","l","e","t","e">>,
       <<"d","r","o","p">>,
       <<"a","l","t","e","r">> >>

FORBIDDEN ==
    << <<"i","n","s","e","r","t">>,
       <<"u","p","d","a","t","e">>,
       <<"d","e","l","e","t","e">>,
       <<"d","r","o","p">>,
       <<"a","l","t","e","r">>,
       <<"t","r","u","n","c","a","t","e">> >>

NOT_SELECT_MSG == " Solo se permiten consultas SELECT."
BLOCKED_MSG == " Consulta bloqueada por seguridad."
NO_RESULTS_MSG == "Consulta ejecutada sin resultados."

DEFAULT_LIMIT == 100

(***************************************************************************)
(* Inputs: the statements a caller can send are the concatenations of at   *)
(* most MaxPieces of these pieces (nothing is put between two pieces).     *)
(***************************************************************************)
Pieces ==
    << <<"s","e","l","e","c","t">>,
       <<"S","E","L","E","C","T">>,
       <<" ">>,
       <<"\n">>,
       <<" ","x">>,
       <<"l","i","m","i","t">>,
       <<"i","n","s","e","r","t">>,
       <<"U","P","D","A","T","E">>,
       <<"D","e","l","e","t","e">>,
       <<"d","r","o","p">>,
       <<"A","L","T","E","R">>,
       <<"t","r","u","n","c","a","t","e">>,
       <<" ","n","e","x","t","v","a","l","(","'","s","'",")">> >>

\* the concatenation of the pieces a choice names, in order
RECURSIVE Concat(_, _)
Concat(pieces, choice) ==
    IF choice = <<>> THEN <<>>
    ELSE pieces[Head(choice)] \o Concat(pieces, Tail(choice))

Limits(default) == { 5, default }

(***************************************************************************)
(* Python values carried in rows: [type, val].                             *)
(*   int   : val is the integer                                            *)
(*   float : val is the number in thousandths (19.99 is 19990)             *)
(*   str   : val is the sequence of its characters                         *)
(* A conversion that raises ValueError yields the marker ValueError.       *)
(***************************************************************************)
PyInt(n) == [type |-> "int", val |-> n]
PyFloat(m) == [type |-> "float", val |-> m]
PyStr(s) == [type |-> "str", val |-> s]
ValueError == [type |-> "ValueError", val |-> 0]

IsDigit(c) == \E k \in 1 .. 10 : c = DigitChars[k]

AllDigits(s) == \A k \in 1 .. Len(s) : IsDigit(s[k])

DigitValue(c) == CHOOSE d \in 0 .. 9 : DigitChars[d + 1] = c

\* the number a sequence of decimal digits denotes (0 for none)
RECURSIVE digits_value(_)
digits_value(s) ==
    IF s = <<>> THEN 0
    ELSE digits_value(SubSeq(s, 1, Len(s) - 1)) * 10 + DigitValue(s[Len(s)])

\* a numeric literal without its sign, and the sign
unsigned(s) == IF s # <<>> /\ (s[1] = "+" \/ s[1] = "-") THEN Tail(s) ELSE s
sign_of(s) == IF s # <<>> /\ s[1] = "-" THEN 0 - 1 ELSE 1

\* the position of the first "." of s, 0 when there is none
point_at(s) ==
    IF \E k \in 1 .. Len(s) : s[k] = "."
    THEN CHOOSE k \in 1 .. Len(s) :
            s[k] = "." /\ \A j \in 1 .. (k - 1) : s[j] # "."
    ELSE 0

whole_part(s) ==
    LET u == unsigned(s)
    IN  IF point_at(u) = 0 THEN u ELSE SubSeq(u, 1, point_at(u) - 1)

frac_part(s) ==
    LET u == unsigned(s)
    IN  IF point_at(u) = 0 THEN <<>> ELSE SubSeq(u, point_at(u) + 1, Len(u))

\* what int(str) accepts: an optional sign and one or more digits (the
\* surrounding whitespace and the underscores it also accepts are not used)
is_int_literal(s) == unsigned(s) # <<>> /\ AllDigits(unsigned(s))

\* what float(str) accepts: an optional sign, digits, and an optional "."
\* followed by digits, with a digit on at least one side (exponents, inf
\* and nan are not used)
is_float_literal(s) ==
    /\ AllDigits(whole_part(s))
    /\ AllDigits(frac_part(s))
    /\ Len(whole_part(s)) + Len(frac_part(s)) > 0

\* the float a literal denotes, in thousandths (literals of the model have
\* at most three fractional digits)
float_literal(s) ==
    LET f == frac_part(s)
        f3 == IF Len(f) >= 3 THEN SubSeq(f, 1, 3)
              ELSE IF Len(f) = 2 THEN f \o <<"0">>
              ELSE IF Len(f) = 1 THEN f \o <<"0", "0">>
              ELSE <<"0", "0", "0">>
    IN  sign_of(s) * (digits_value(whole_part(s)) * 1000 + digits_value(f3))

\* float(value)
py_float(value) ==
    IF value.type = "int" THEN PyFloat(value.val * 1000)
    ELSE IF value.type = "float" THEN value
    ELSE IF is_float_literal(value.val) THEN PyFloat(float_literal(value.val))
    ELSE ValueError

\* round(x, 2) of a float, to the nearest hundredth.  A float lies exactly
\* half way between two hundredths only when it is a multiple of 1/8 (0.125,
\* 0.375, ...), and round() then goes to the even hundredth; the floats of
\* the model that end in 5 thousandths are such multiples.
py_round2(x) ==
    LET m == x.val
        lo == (m \div 10) * 10
        rest == m - lo
        up == IF rest > 5 THEN TRUE
              ELSE IF rest < 5 THEN FALSE
              ELSE ((lo \div 10) % 2) = 1
    IN  PyFloat(IF up THEN lo + 10 ELSE lo)

\* int(value): an int as it is, a float truncated towards zero, a str parsed
\* as an integer literal
py_int(value) ==
    IF value.type = "int" THEN value
    ELSE IF value.type = "float"
    THEN PyInt(IF value.val >= 0 THEN value.val \div 1000
               ELSE 0 - ((0 - value.val) \div 1000))
    ELSE IF is_int_literal(value.val)
    THEN PyInt(sign_of(value.val) * digits_value(unsigned(value.val)))
    ELSE ValueError

\* the fractional digits of a float's repr: trailing zeros dropped, one kept
frac_str(f) ==
    IF f % 100 = 0 THEN ToString(f \div 100)
    ELSE LET d1 == ToString(f \div 100)
             d2 == ToString((f \div 10) % 10)
         IN  IF f % 10 = 0 THEN d1 \o d2
             ELSE d1 \o d2 \o ToString(f % 10)

\* sep.join(items)
RECURSIVE join(_, _)
join(sep, items) ==
    IF items = <<>> THEN ""
    ELSE IF Len(items) = 1 THEN items[1]
    ELSE items[1] \o sep \o join(sep, Tail(items))

\* str(value)
py_str(value) ==
    IF value.type = "int" THEN ToString(value.val)
    ELSE IF value.type = "str" THEN join("", value.val)
    ELSE LET a == IF value.val < 0 THEN 0 - value.val ELSE value.val
             sign == IF value.val < 0 THEN "-" ELSE ""
         IN  sign \o ToString(a \div 1000) \o "." \o frac_str(a % 1000)

(***************************************************************************)
(* visual_report (tools.py 30-74), the Result Normalizer.                  *)
(* format_columns maps 0-based column indices to a kind; None is the empty *)
(* mapping.  summary None is "".                                           *)
(***************************************************************************)
NoFormat == <<>>

\* tools.py 49-53: the value of column i (0-based) after formatting, or
\* ValueError when float() or int() raises it
format_value(value, i, format_columns) ==
    IF format_columns # <<>> /\ i \in DOMAIN format_columns
    THEN IF format_columns[i] = "currency"
         THEN IF py_float(value).type = "ValueError" THEN ValueError
              ELSE py_round2(py_float(value))
         ELSE IF format_columns[i] = "number" THEN py_int(value)
         ELSE value
    ELSE value

\* tools.py 46-54: obj = {}; obj[col] = value for each column in order, so a
\* column name that occurs again overwrites the earlier entry
structured_row(columns, row, format_columns) ==
    [c \in { columns[i] : i \in 1 .. Len(columns) } |->
        LET last == CHOOSE i \in 1 .. Len(columns) :
                        /\ columns[i] = c
                        /\ \A j \in 1 .. Len(columns) : columns[j] = c => j <= i
        IN  format_value(row[last], last - 1, format_columns)]

\* tools.py 63: one markdown line per record
markdown_row(columns, r) ==
    "| " \o join(" | ", [i \in 1 .. Len(columns) |-> py_str(r[columns[i]])]) \o " |\n"

RECURSIVE markdown_rows(_, _)
markdown_rows(columns, structured_rows) ==
    IF structured_rows = <<>> THEN ""
    ELSE markdown_row(columns, Head(structured_rows))
         \o markdown_rows(columns, Tail(structured_rows))

visual_report(title, description, columns, rows, summary, format_columns) ==
    LET structured_rows ==
            [r \in 1 .. Len(rows) |-> structured_row(columns, rows[r], format_columns)]
        md == "## " \o title \o "\n\n*" \o description \o "*\n\n"
              \o "| " \o join(" | ", columns) \o " |\n"
              \o "| " \o join(" | ", [i \in 1 .. Len(columns) |-> "---"]) \o " |\n"
              \o markdown_rows(columns, structured_rows)
              \o (IF summary # "" THEN "\n###  Analisis\n" \o summary \o "\n" ELSE "")
    IN  [ title |-> title,
          description |-> description,
          columns |-> columns,
          data |-> structured_rows,
          markdown |-> md ]

\* tools.py 45-53: the conversions are applied to every cell, row by row
\* and column by column; the first one that raises ends the call
visual_report_raises(columns, rows, format_columns) ==
    \E r \in 1 .. Len(rows), i \in 1 .. Len(columns) :
        format_value(rows[r][i], i - 1, format_columns).type = "ValueError"

(***************************************************************************)
(* The Safe-Query Gate (tools.py 236-245).                                 *)
(***************************************************************************)
\* a plausible slip: `"select" in lowered` instead of lowered.startswith("select")
is_select_anywhere(lowered) == contains(lowered, SELECT_WORD)

\* tools.py 238: lowered.startswith("select")
is_select(lowered) == startswith(lowered, SELECT_WORD)

\* a plausible slip: the deny-list without its last word
is_forbidden_short(lowered) ==
    \E k \in 1 .. Len(FORBIDDEN_short) : contains(lowered, FORBIDDEN_short[k])

\* tools.py 241: any(word in lowered for word in FORBIDDEN)
is_forbidden(lowered) ==
    \E k \in 1 .. Len(FORBIDDEN) : contains(lowered, FORBIDDEN[k])

\* tools.py 236-242: the refusal the gate returns, or "pass"
run_safe_query_gate(sql_arg) ==
    LET lowered == lower(sql_arg)
    IN  IF ~is_select(lowered) THEN NOT_SELECT_MSG
        ELSE IF is_forbidden(lowered) THEN BLOCKED_MSG
        ELSE "pass"

\* tools.py 244-245: if "limit" not in lowered: sql += f" LIMIT {limit}"
bound_sql(sql_arg, limit_arg) ==
    IF ~contains(lower(sql_arg), LIMIT_WORD)
    THEN sql_arg \o LIMIT_SUFFIX \o int_str(limit_arg)
    ELSE sql_arg

(***************************************************************************)
(* What an invocation returns.                                             *)
(***************************************************************************)
NoResult == [kind |-> "none"]
StrResult(t) == [kind |-> "str", text |-> t]
EnvelopeResult(e) == [kind |-> "envelope", envelope |-> e]
ErrorResult(x) == [kind |-> "error", exc |-> x]
CancelledResult == [kind |-> "cancelled"]
NoneResult == [kind |-> "None"]
DictResult(d) == [kind |-> "dict", dict |-> d]

\* a call of visual_report: the envelope it returns, or the ValueError it raises
visual_report_call(title, description, columns, rows, summary, format_columns) ==
    IF visual_report_raises(columns, rows, format_columns)
    THEN ErrorResult("ValueError")
    ELSE EnvelopeResult(visual_report(title, description, columns, rows,
                                      summary, format_columns))

\* a plausible slip: the `if not rows` test left out
query_result_always_envelope(keys, rows) ==
    EnvelopeResult(visual_report("Resultado de consulta SQL",
                                 "Consulta ejecutada de forma segura.",
                                 keys, rows, "", NoFormat))

\* tools.py 249-259: what run_safe_query returns for the Executor's result
query_result(keys, rows) ==
    IF rows = <<>> THEN StrResult(NO_RESULTS_MSG)
    ELSE EnvelopeResult(visual_report("Resultado de consulta SQL",
                                      "Consulta ejecutada de forma segura.",
                                      keys, rows, "", NoFormat))

(***************************************************************************)
(* The catalog of fixed reports: what each tool returns for its arguments  *)
(* and the rows `all` that session.execute answered.                       *)
(***************************************************************************)
\* tools.py 90-97
list_tables_return(all) ==
    visual_report_call("Tablas disponibles",
                       "Tablas publicas de la base de datos Pagila.",
                       <<"tabla">>,
                       [r \in 1 .. Len(all) |-> <<all[r][1]>>],
                       "", NoFormat)

\* tools.py 110-117
list_columns_return(table_name, all) ==
    visual_report_call("Estructura de " \o table_name,
                       "Columnas y tipos de datos.",
                       <<"columna", "tipo">>,
                       [r \in 1 .. Len(all) |-> <<all[r][1], all[r][2]>>],
                       "", NoFormat)

\* tools.py 141-153
top_customers_by_rentals_return(top_n, all) ==
    visual_report_call("Top " \o ToString(top_n) \o " clientes por alquileres",
                       "Ranking dinamico de clientes mas activos.",
                       <<"customer_id", "cliente", "alquileres">>,
                       [r \in 1 .. Len(all) |-> <<all[r][1], all[r][2], all[r][3]>>],
                       "Los clientes en las primeras posiciones representan el mayor volumen de actividad.",
                       (2 :> "number"))

\* tools.py 174-186
top_customers_by_revenue_return(top_n, all) ==
    visual_report_call("Top " \o ToString(top_n) \o " clientes por ingresos",
                       "Clientes que mas dinero han generado.",
                       <<"customer_id", "cliente", "ingresos">>,
                       [r \in 1 .. Len(all) |-> <<all[r][1], all[r][2], all[r][3]>>],
                       "Este ranking identifica a los clientes mas rentables para el negocio.",
                       (2 :> "currency"))

\* tools.py 210-225
top_categories_by_revenue_return(top_n, all) ==
    visual_report_call("Top " \o ToString(top_n) \o " categorias mas rentables",
                       "Ranking de categorias segun ingresos totales.",
                       <<"categoria", "ingresos">>,
                       [r \in 1 .. Len(all) |-> <<all[r][1], all[r][2]>>],
                       "Las primeras categorias concentran la mayor parte de los ingresos, "
                       \o "lo que permite priorizar inversion y marketing.",
                       (1 :> "currency"))

\* tools.py 279-294
top_actors_by_film_count_return(top_n, all) ==
    visual_report_call("Top " \o ToString(top_n) \o " actores con mas peliculas",
                       "Ranking dinamico de actores segun numero de peliculas.",
                       <<"actor_id", "actor", "peliculas">>,
                       [r \in 1 .. Len(all) |-> <<all[r][1], all[r][2], all[r][3]>>],
                       "Los actores en las primeras posiciones tienen mayor presencia en el catalogo, "
                       \o "lo que puede indicar alta demanda o popularidad.",
                       (2 :> "number"))

\* tools.py 317-332
top_actors_by_revenue_return(top_n, all) ==
    visual_report_call("Top " \o ToString(top_n) \o " actores mas rentables",
                       "Actores ordenados por ingresos totales generados.",
                       <<"actor_id", "actor", "ingresos">>,
                       [r \in 1 .. Len(all) |-> <<all[r][1], all[r][2], all[r][3]>>],
                       "Este ranking permite identificar a los actores con mayor impacto economico "
                       \o "dentro del catalogo.",
                       (2 :> "currency"))

\* tools.py 357-376: a dict written out in place
films_by_actor_return(actor_name, films) ==
    LET total == Len(films)
        rows == [r \in 1 .. total |-> <<films[r][1], films[r][2], films[r][3]>>]
    IN  DictResult(
            [ title |-> "Peliculas del actor: " \o actor_name,
              total_peliculas |-> PyInt(total),
              markdown |->
                  "##  Peliculas de " \o actor_name \o "\n\n"
                  \o "**Total de peliculas:** " \o ToString(total) \o "\n\n"
                  \o "| Pelicula | Categoria | Ano |\n"
                  \o "|----------|-----------|-----|\n"
                  \o join("\n", [r \in 1 .. total |->
                        "| " \o py_str(rows[r][1]) \o " | " \o py_str(rows[r][2])
                        \o " | " \o py_str(rows[r][3]) \o " |"]),
              data |-> rows ])

\* tools.py 395-417: a dict written out in place
top_rented_movies_return(top_n, rows) ==
    DictResult(
        [ title |-> "Top " \o ToString(top_n) \o " peliculas mas alquiladas",
          total_peliculas |-> PyInt(Len(rows)),
          markdown |->
              "##  Top " \o ToString(top_n) \o " peliculas mas alquiladas\n\n"
              \o "| Posicion | Pelicula | Total de alquileres |\n"
              \o "|----------|----------|---------------------|\n"
              \o join("\n", [r \in 1 .. Len(rows) |->
                    "| " \o ToString(r) \o " | " \o py_str(rows[r][1])
                    \o " | " \o py_str(rows[r][2]) \o " |"]),
          data |-> [r \in 1 .. Len(rows) |->
                      [ posicion |-> PyInt(r),
                        pelicula |-> rows[r][1],
                        alquileres |-> rows[r][2] ]] ])

\* the digits of n in groups of three, as the "," of a format spec writes them
RECURSIVE group3(_)
group3(n) ==
    IF n < 1000 THEN ToString(n)
    ELSE group3(n \div 1000) \o ","
         \o ToString((n \div 100) % 10) \o ToString((n \div 10) % 10)
         \o ToString(n % 10)

\* f"{x:,.2f}"
format_comma_2f(x) ==
    LET m == py_round2(py_float(x)).val
        a == IF m < 0 THEN 0 - m ELSE m
    IN  (IF m < 0 THEN "-" ELSE "") \o group3(a \div 1000) \o "."
        \o ToString((a \div 100) % 10) \o ToString((a \div 10) % 10)

\* tools.py 439-460: a dict written out in place
top_profitable_categories_return(top_n, rows) ==
    DictResult(
        [ title |-> "Top " \o ToString(top_n) \o " categorias mas rentables",
          markdown |->
              "## Categorias mas rentables\n\n"
              \o "| Posicion | Categoria | Ingresos |\n"
              \o "|----------|-----------|----------|\n"
              \o join("\n", [r \in 1 .. Len(rows) |->
                    "| " \o ToString(r) \o " | " \o py_str(rows[r][1])
                    \o " | $" \o format_comma_2f(rows[r][2]) \o " |"]),
          data |-> [r \in 1 .. Len(rows) |->
                      [ posicion |-> PyInt(r),
                        categoria |-> rows[r][1],
                        ingresos |-> py_float(rows[r][2]) ]] ])

\* what the tool invoked with the arguments a returns for the rows answered
tool_return(a, all) ==
    CASE a.tool = "list_tables" -> list_tables_return(all)
      [] a.tool = "list_columns" -> list_columns_return(a.table_name, all)
      [] a.tool = "top_customers_by_rentals" ->
            top_customers_by_rentals_return(a.top_n, all)
      [] a.tool = "top_customers_by_revenue" ->
            top_customers_by_revenue_return(a.top_n, all)
      [] a.tool = "top_categories_by_revenue" ->
            top_categories_by_revenue_return(a.top_n, all)
      [] a.tool = "top_actors_by_film_count" ->
            top_actors_by_film_count_return(a.top_n, all)
      [] a.tool = "top_actors_by_revenue" ->
            top_actors_by_revenue_return(a.top_n, all)
      [] a.tool = "films_by_actor" -> films_by_actor_return(a.actor_name, all)
      [] a.tool = "top_rented_movies" -> top_rented_movies_return(a.top_n, all)
      [] a.tool = "top_profitable_categories" ->
            top_profitable_categories_return(a.top_n, all)

(***************************************************************************)
(* The store behind the Executor: what session.execute(text(sql)) can      *)
(* answer.  The store is PostgreSQL; its one piece of state kept here is   *)
(* a sequence (every Integer primary key of models.py owns one), which     *)
(* nextval() advances outside any transaction.                             *)
(***************************************************************************)
NEXTVAL_CALL == <<"n","e","x","t","v","a","l","(">>

calls_nextval(text) == contains(lower(text), NEXTVAL_CALL)

KeyLists == << <<>>, <<"a">>, <<"a", "b">>, <<"a", "a">> >>

\* the rows a result with n columns can hold: the values 1..n, in either order
RowsOf(n) ==
    { [c \in 1 .. n |-> PyInt(c)], [c \in 1 .. n |-> PyInt(n + 1 - c)] }

RowsAnswer(keys, rows) == [kind |-> "rows", keys |-> keys, rows |-> rows]

NoAnswer == [kind |-> "none"]
FailAnswer == [kind |-> "fail"]

\* a few strings of the Pagila data
S_film == PyStr(<<"f","i","l","m">>)
S_actor == PyStr(<<"a","c","t","o","r">>)
S_title == PyStr(<<"t","i","t","l","e">>)
S_text == PyStr(<<"t","e","x","t">>)
S_year == PyStr(<<"y","e","a","r">>)
S_integer == PyStr(<<"i","n","t","e","g","e","r">>)
S_Ed_Chase == PyStr(<<"E","d"," ","C","h","a","s","e">>)
S_Bo == PyStr(<<"B","o">>)
S_Alien == PyStr(<<"A","l","i","e","n">>)
S_Zorro == PyStr(<<"Z","o","r","r","o">>)
S_Sports == PyStr(<<"S","p","o","r","t","s">>)
S_Sci_Fi == PyStr(<<"S","c","i","-","F","i">>)

\* the rows the fixed statement of a tool can be answered with: the labels
\* of its columns and some rows of the types the statement selects
ToolAnswers(tool) ==
    CASE tool = "list_tables" ->
            [ keys |-> <<"table_name">>,
              rows |-> << <<S_actor>>, <<S_film>> >> ]
      [] tool = "list_columns" ->
            [ keys |-> <<"column_name", "data_type">>,
              rows |-> << <<S_title, S_text>>, <<S_year, S_integer>> >> ]
      [] tool = "top_customers_by_rentals" ->
            [ keys |-> <<"customer_id", "cliente", "alquileres">>,
              rows |-> << <<PyInt(1), S_Ed_Chase, PyInt(46)>>,
                          <<PyInt(2), S_Bo, PyInt(45)>> >> ]
      [] tool = "top_customers_by_revenue" ->
            [ keys |-> <<"customer_id", "cliente", "ingresos">>,
              rows |-> << <<PyInt(1), S_Ed_Chase, PyFloat(1234560)>>,
                          <<PyInt(2), S_Bo, PyFloat(4989)>> >> ]
      [] tool = "top_categories_by_revenue" ->
            [ keys |-> <<"categoria", "ingresos">>,
              rows |-> << <<S_Sports, PyFloat(1234560)>>,
                          <<S_Sci_Fi, PyFloat(4989)>> >> ]
      [] tool = "top_actors_by_film_count" ->
            [ keys |-> <<"actor_id", "actor", "peliculas">>,
              rows |-> << <<PyInt(1), S_Ed_Chase, PyInt(42)>>,
                          <<PyInt(2), S_Bo, PyInt(41)>> >> ]
      [] tool = "top_actors_by_revenue" ->
            [ keys |-> <<"actor_id", "actor", "ingresos">>,
              rows |-> << <<PyInt(1), S_Ed_Chase, PyFloat(1234560)>>,
                          <<PyInt(2), S_Bo, PyFloat(4989)>> >> ]
      [] tool = "films_by_actor" ->
            [ keys |-> <<"title", "categoria", "release_year">>,
              rows |-> << <<S_Alien, S_Sci_Fi, PyInt(2006)>>,
                          <<S_Zorro, S_Sports, PyInt(2007)>> >> ]
      [] tool = "top_rented_movies" ->
            [ keys |-> <<"title", "total">>,
              rows |-> << <<S_Zorro, PyInt(34)>>, <<S_Alien, PyInt(33)>> >> ]
      [] tool = "top_profitable_categories" ->
            [ keys |-> <<"name", "revenue">>,
              rows |-> << <<S_Sports, PyFloat(1234560)>>,
                          <<S_Sci_Fi, PyFloat(4989)>> >> ]

(***************************************************************************)
(* database.py: the lazily created engine and session factory, and the     *)
(* sessions the factory hands out.                                         *)
(***************************************************************************)
SessionIds == 1 .. NCalls

\* database.py 37-50
get_engine(e) == IF e = "None" THEN "Engine" ELSE e

\* database.py 56-68: the pair of globals after the call
get_session_factory(f, e) ==
    IF f = "None"
    THEN [AsyncSessionLocal |-> "Factory", engine |-> get_engine(e)]
    ELSE [AsyncSessionLocal |-> f, engine |-> e]

\* a plausible slip: one module-level session used by every call
shared_session(ss) == 1

\* database.py 100: session_factory() makes a new AsyncSession object; 0 when
\* the model has no object left to hand out
new_session(ss) ==
    IF \E id \in SessionIds : ss[id] = "unborn"
    THEN CHOOSE id \in SessionIds :
            /\ ss[id] = "unborn"
            /\ \A other \in SessionIds : ss[other] = "unborn" => id <= other
    ELSE 0

\* a plausible slip: the session is closed on the normal path only, and the
\* factory's session is not entered with `async with`
get_db_context_exit_leaky(how) ==
    IF how = "exception" THEN "rollback"
    ELSE IF how = "cancel" THEN "done"
    ELSE "closing"

\* database.py 101-108: where the context manager goes when its body ends by
\* a return, an Exception, or a CancelledError (a BaseException)
get_db_context_exit(how) ==
    IF how = "exception" THEN "rollback" ELSE "closing"

\* a plausible slip: `raise` left out, so the context manager swallows the error
after_rollback_swallow(pending, ok) == NoneResult

\* database.py 104-106: rollback, log, raise. A rollback that itself fails
\* raises its own error in place of the store's.
after_rollback(pending, ok) ==
    IF ok THEN pending ELSE ErrorResult("RollbackError")

(***************************************************************************)
(* State.                                                                  *)
(***************************************************************************)
VARIABLES
    engine,             \* database.py 30: "None" or the engine
    AsyncSessionLocal,  \* database.py 31: "None" or the session factory
    sessions,           \* each AsyncSession object: "unborn", "open", "closed"
    store,              \* the store: the value of its sequence
    pc,                 \* where each invocation of an operation stands
    args,               \* the operation invoked (tool) and its arguments
    sql,                \* run_safe_query's local sql (tools.py 245 may extend it)
    executed,           \* the statements it has handed to session.execute, in order
    session,            \* the session its get_db_context yielded, 0 for none
    answer,             \* what the Executor answered to it
    result              \* what it returns or raises

vars == << engine, AsyncSessionLocal, sessions, store,
           pc, args, sql, executed, session, answer, result >>

globals == << engine, AsyncSessionLocal, sessions, store >>

NoArgs == [tool |-> "", sql |-> <<>>, limit |-> 0]

\* Modules are imported with both globals None; server.py 18 runs init_db(),
\* which creates the engine, before mcp.run() serves the first call.
Init ==
    /\ engine \in { "None", "Engine" }
    /\ AsyncSessionLocal = "None"
    /\ sessions = [id \in SessionIds |-> "unborn"]
    /\ store = 0
    /\ pc = [i \in Calls |-> "idle"]
    /\ args = [i \in Calls |-> NoArgs]
    /\ sql = [i \in Calls |-> <<>>]
    /\ executed = [i \in Calls |-> <<>>]
    /\ session = [i \in Calls |-> 0]
    /\ answer = [i \in Calls |-> NoAnswer]
    /\ result = [i \in Calls |-> NoResult]

(***************************************************************************)
(* run_safe_query(sql, limit), tools.py 231-259.  The code runs without    *)
(* suspending from its entry to `await session.execute(...)`: the gate,    *)
(* get_session_factory() and session_factory() make no I/O.                *)
(***************************************************************************)
run_safe_query(i, sql_arg, limit_arg) ==
    /\ args' = [args EXCEPT ![i] = [tool |-> "run_safe_query",
                                    sql |-> sql_arg, limit |-> limit_arg]]
    /\ LET verdict == run_safe_query_gate(sql_arg)
       IN  IF verdict # "pass"
           THEN /\ result' = [result EXCEPT ![i] = StrResult(verdict)]
                /\ pc' = [pc EXCEPT ![i] = "done"]
                /\ sql' = [sql EXCEPT ![i] = sql_arg]
                /\ UNCHANGED << globals, executed, session, answer >>
           ELSE LET made == get_session_factory(AsyncSessionLocal, engine)
                    sid == new_session(sessions)
                    text == bound_sql(sql_arg, limit_arg)
                IN  /\ sid # 0
                    /\ AsyncSessionLocal' = made.AsyncSessionLocal
                    /\ engine' = made.engine
                    /\ sessions' = [sessions EXCEPT ![sid] = "open"]
                    /\ session' = [session EXCEPT ![i] = sid]
                    /\ sql' = [sql EXCEPT ![i] = text]
                    /\ executed' = [executed EXCEPT ![i] = Append(@, text)]
                    /\ pc' = [pc EXCEPT ![i] = "executing"]
                    /\ UNCHANGED << store, answer, result >>

\* The transport delivers a call: a statement of at most n pieces, a limit of L
Invoke(i, pieces, n, L) ==
    /\ pc[i] = "idle"
    /\ \E m \in 0 .. n :
        \E choice \in [1 .. m -> 1 .. Len(pieces)], limit_arg \in L :
            run_safe_query(i, Concat(pieces, choice), limit_arg)

\* tools.py 248-259: the Executor answers with a Query Result (one of the
\* key lists, at most n rows); the body of the `async with` returns and
\* get_db_context goes to its finally clause
ExecuteReturns(i, keylists, n) ==
    /\ pc[i] = "executing"
    /\ args[i].tool = "run_safe_query"
    /\ IF calls_nextval(sql[i])
       THEN store < MaxNextval /\ store' = store + 1
       ELSE store' = store
    /\ \E k \in 1 .. Len(keylists), m \in 0 .. n :
        \E rows \in [1 .. m -> RowsOf(Len(keylists[k]))] :
            /\ answer' = [answer EXCEPT ![i] = RowsAnswer(keylists[k], rows)]
            /\ result' = [result EXCEPT ![i] = query_result(keylists[k], rows)]
    /\ pc' = [pc EXCEPT ![i] = get_db_context_exit("return")]
    /\ UNCHANGED << engine, AsyncSessionLocal, sessions, args, sql, executed, session >>

\* tools.py 248: session.execute raises (StoreExecutionError of the spec);
\* database.py 103-104: get_db_context awaits session.rollback()
ExecuteFails(i) ==
    /\ pc[i] = "executing"
    /\ answer' = [answer EXCEPT ![i] = FailAnswer]
    /\ result' = [result EXCEPT ![i] = ErrorResult("StoreExecutionError")]
    /\ pc' = [pc EXCEPT ![i] = get_db_context_exit("exception")]
    /\ UNCHANGED << globals, args, sql, executed, session >>

\* database.py 104-108: the rollback ends; the error is logged and raised
\* again, and the finally clause awaits session.close()
RollbackDone(i, ok) ==
    /\ pc[i] = "rollback"
    /\ result' = [result EXCEPT ![i] = after_rollback(@, ok)]
    /\ pc' = [pc EXCEPT ![i] = "closing"]
    /\ UNCHANGED << globals, args, sql, executed, session, answer >>

\* database.py 108: session.close() ends; the generator is left and
\* `async with session_factory() as session` (database.py 100) exits
CloseDone(i) ==
    /\ pc[i] = "closing"
    /\ sessions' = [sessions EXCEPT ![session[i]] = "closed"]
    /\ pc' = [pc EXCEPT ![i] = "aexit"]
    /\ UNCHANGED << engine, AsyncSessionLocal, store, args, sql, executed,
                    session, answer, result >>

\* database.py 100: AsyncSession.__aexit__ closes the session (again, or for
\* the first time when the close of line 108 was interrupted); the
\* invocation returns its value or raises its error
AexitDone(i) ==
    /\ pc[i] = "aexit"
    /\ sessions' = [sessions EXCEPT ![session[i]] = "closed"]
    /\ pc' = [pc EXCEPT ![i] = "done"]
    /\ UNCHANGED << engine, AsyncSessionLocal, store, args, sql, executed,
                    session, answer, result >>

\* The transport aborts the call, once: CancelledError is raised at the await
\* the call is suspended in.  It is a BaseException, so `except Exception`
\* (database.py 103) does not catch it; the finally clause runs.  Raised in
\* the close of line 108 itself, it leaves the closing to __aexit__.
Cancel(i) ==
    /\ pc[i] \in { "executing", "rollback", "closing" }
    /\ result[i] # CancelledResult
    /\ result' = [result EXCEPT ![i] = CancelledResult]
    /\ pc' = [pc EXCEPT ![i] = IF pc[i] = "closing" THEN "aexit"
                               ELSE get_db_context_exit("cancel")]
    /\ UNCHANGED << globals, args, sql, executed, session, answer >>

\* The caller has its answer; the invocation's frame and its session object
\* are gone (a closed session object is garbage and its place is free again).
Return(i) ==
    /\ pc[i] = "done"
    /\ pc' = [pc EXCEPT ![i] = "idle"]
    /\ args' = [args EXCEPT ![i] = NoArgs]
    /\ sql' = [sql EXCEPT ![i] = <<>>]
    /\ executed' = [executed EXCEPT ![i] = <<>>]
    /\ session' = [session EXCEPT ![i] = 0]
    /\ answer' = [answer EXCEPT ![i] = NoAnswer]
    /\ result' = [result EXCEPT ![i] = NoResult]
    /\ sessions' = IF session[i] # 0 /\ sessions[session[i]] = "closed"
                   THEN [sessions EXCEPT ![session[i]] = "unborn"]
                   ELSE sessions
    /\ UNCHANGED << engine, AsyncSessionLocal, store >>

(***************************************************************************)
(* The fixed reports (tools.py 80-225, 261-460).  Each one enters          *)
(* get_db_context() and awaits session.execute of its own statement; like  *)
(* run_safe_query it runs without suspending up to that await.             *)
(***************************************************************************)
\* the arguments a caller gives
TableNames == << "film", "nope" >>
ActorNames == << "Ed", "zz" >>
TopNs == << 1, 10 >>

\* `async with get_db_context() as session: result = await session.execute(`
call_tool(i, a) ==
    /\ pc[i] = "idle"
    /\ LET made == get_session_factory(AsyncSessionLocal, engine)
           sid == new_session(sessions)
       IN  /\ sid # 0
           /\ AsyncSessionLocal' = made.AsyncSessionLocal
           /\ engine' = made.engine
           /\ sessions' = [sessions EXCEPT ![sid] = "open"]
           /\ session' = [session EXCEPT ![i] = sid]
    /\ args' = [args EXCEPT ![i] = a]
    /\ executed' = [executed EXCEPT ![i] = Append(@, a.tool)]
    /\ pc' = [pc EXCEPT ![i] = "executing"]
    /\ UNCHANGED << store, sql, answer, result >>

list_tables(i) == call_tool(i, [tool |-> "list_tables"])

list_columns(i, table_name) ==
    call_tool(i, [tool |-> "list_columns", table_name |-> table_name])

top_customers_by_rentals(i, top_n) ==
    call_tool(i, [tool |-> "top_customers_by_rentals", top_n |-> top_n])

top_customers_by_revenue(i, top_n) ==
    call_tool(i, [tool |-> "top_customers_by_revenue", top_n |-> top_n])

top_categories_by_revenue(i, top_n) ==
    call_tool(i, [tool |-> "top_categories_by_revenue", top_n |-> top_n])

top_actors_by_film_count(i, top_n) ==
    call_tool(i, [tool |-> "top_actors_by_film_count", top_n |-> top_n])

top_actors_by_revenue(i, top_n) ==
    call_tool(i, [tool |-> "top_actors_by_revenue", top_n |-> top_n])

films_by_actor(i, actor_name) ==
    call_tool(i, [tool |-> "films_by_actor", actor_name |-> actor_name])

top_rented_movies(i, top_n) ==
    call_tool(i, [tool |-> "top_rented_movies", top_n |-> top_n])

top_profitable_categories(i, top_n) ==
    call_tool(i, [tool |-> "top_profitable_categories", top_n |-> top_n])

\* the most rows the statement of the call can be answered with: .limit(top_n)
row_cap(a, n) ==
    IF "top_n" \in DOMAIN a /\ a.top_n < n THEN a.top_n ELSE n

\* The Executor answers the statement of a fixed report with at most n rows,
\* distinct and in the order of the statement's ORDER BY (the order they are
\* listed in); the tool builds its return value inside the `async with`, and
\* get_db_context goes to its finally clause, through the rollback when the
\* building raised
ToolReturns(i, n) ==
    /\ pc[i] = "executing"
    /\ args[i].tool # "run_safe_query"
    /\ \E m \in 0 .. row_cap(args[i], n) :
        \E choice \in [1 .. m -> 1 .. Len(ToolAnswers(args[i].tool).rows)] :
            LET all == [r \in 1 .. m |-> ToolAnswers(args[i].tool).rows[choice[r]]]
                returned == tool_return(args[i], all)
            IN  /\ \A r \in 1 .. (m - 1) : choice[r] < choice[r + 1]
                /\ answer' = [answer EXCEPT ![i] =
                                RowsAnswer(ToolAnswers(args[i].tool).keys, all)]
                /\ result' = [result EXCEPT ![i] = returned]
                /\ pc' = [pc EXCEPT ![i] =
                            get_db_context_exit(IF returned.kind = "error"
                                                THEN "exception" ELSE "return")]
    /\ UNCHANGED << globals, args, sql, executed, session >>

(***************************************************************************)
(* Spec: one caller, one invocation after another, any statement.          *)
(***************************************************************************)
Next ==
    \/ Invoke(1, Pieces, MaxPieces, Limits(DEFAULT_LIMIT))
    \/ ExecuteReturns(1, KeyLists, MaxRows)
    \/ ExecuteFails(1)
    \/ \E ok \in BOOLEAN : RollbackDone(1, ok)
    \/ CloseDone(1)
    \/ AexitDone(1)
    \/ Cancel(1)
    \/ Return(1)

Spec == Init /\ [][Next]_vars

(***************************************************************************)
(* ConcSpec: NCalls invocations in flight at once, a few statements.       *)
(***************************************************************************)
ConcPieces ==
    << <<"s","e","l","e","c","t"," ","x">>,
       <<"d","r","o","p"," ","x">> >>

ConcKeyLists == << <<"a">> >>

ConcNext ==
    \E i \in Calls :
        \/ Invoke(i, ConcPieces, 1, { DEFAULT_LIMIT })
        \/ ExecuteReturns(i, ConcKeyLists, 1)
        \/ ExecuteFails(i)
        \/ \E ok \in BOOLEAN : RollbackDone(i, ok)
        \/ CloseDone(i)
        \/ AexitDone(i)
        \/ Cancel(i)
        \/ Return(i)

ConcSpec == Init /\ [][ConcNext]_vars

(***************************************************************************)
(* NormSpec: visual_report (tools.py 30-74) applied to any rows of ints,   *)
(* floats and strings under any format_columns.                            *)
(***************************************************************************)
NormKeyLists == << <<"a">>, <<"a", "b">> >>

NormValues ==
    << PyInt(7),
       PyFloat(19989),
       PyFloat(0 - 2500),
       PyStr(<<"1","9",".","9","8","9">>),
       PyStr(<<"7",".","0">>),
       PyStr(<<"7">>),
       PyStr(<<"x">>) >>

FormatKinds == << "currency", "number", "percent" >>

\* a caller of visual_report: columns of one of the key lists, at most n rows
\* of the values, and a kind of FormatKinds for any of the columns
Normalize(i, keylists, values, n) ==
    /\ pc[i] = "idle"
    /\ \E k \in 1 .. Len(keylists), m \in 0 .. n :
        \E cells \in [1 .. m -> [1 .. Len(keylists[k]) -> 1 .. Len(values)]],
           kinds \in [1 .. Len(keylists[k]) -> 0 .. Len(FormatKinds)] :
            LET columns == keylists[k]
                rows == [r \in 1 .. m |->
                            [c \in 1 .. Len(columns) |-> values[cells[r][c]]]]
                format_columns ==
                    [j \in { c - 1 : c \in { d \in 1 .. Len(columns) : kinds[d] # 0 } }
                        |-> FormatKinds[kinds[j + 1]]]
            IN  /\ args' = [args EXCEPT ![i] =
                                [tool |-> "visual_report", columns |-> columns,
                                 rows |-> rows, format_columns |-> format_columns]]
                /\ result' = [result EXCEPT ![i] =
                                visual_report_call("T", "D", columns, rows, "S",
                                                   format_columns)]
    /\ pc' = [pc EXCEPT ![i] = "done"]
    /\ UNCHANGED << globals, sql, executed, session, answer >>

NormNext ==
    \/ Normalize(1, NormKeyLists, NormValues, 1)
    \/ Return(1)

NormSpec == Init /\ [][NormNext]_vars

(***************************************************************************)
(* ToolSpec: one caller, one invocation after another, of any registered   *)
(* tool (tools.py 80-460).                                                 *)
(***************************************************************************)
ToolNext ==
    \/ list_tables(1)
    \/ \E k \in 1 .. Len(TableNames) : list_columns(1, TableNames[k])
    \/ \E k \in 1 .. Len(TopNs) : top_customers_by_rentals(1, TopNs[k])
    \/ \E k \in 1 .. Len(TopNs) : top_customers_by_revenue(1, TopNs[k])
    \/ \E k \in 1 .. Len(TopNs) : top_categories_by_revenue(1, TopNs[k])
    \/ \E k \in 1 .. Len(TopNs) : top_actors_by_film_count(1, TopNs[k])
    \/ \E k \in 1 .. Len(TopNs) : top_actors_by_revenue(1, TopNs[k])
    \/ \E k \in 1 .. Len(ActorNames) : films_by_actor(1, ActorNames[k])
    \/ \E k \in 1 .. Len(TopNs) : top_rented_movies(1, TopNs[k])
    \/ \E k \in 1 .. Len(TopNs) : top_profitable_categories(1, TopNs[k])
    \/ Invoke(1, ConcPieces, 1, { DEFAULT_LIMIT })
    \/ ToolReturns(1, MaxRows)
    \/ ExecuteReturns(1, ConcKeyLists, 1)
    \/ ExecuteFails(1)
    \/ \E ok \in BOOLEAN : RollbackDone(1, ok)
    \/ CloseDone(1)
    \/ AexitDone(1)
    \/ Cancel(1)
    \/ Return(1)

ToolSpec == Init /\ [][ToolNext]_vars

(***************************************************************************)
(* Vocabulary of the properties.                                           *)
(***************************************************************************)
IsSpace(c) == c \in { " ", "\n", "\t", "\r" }

\* the statement without its leading whitespace
RECURSIVE LStrip(_)
LStrip(s) == IF s # <<>> /\ IsSpace(Head(s)) THEN LStrip(Tail(s)) ELSE s

\* the statement without its trailing whitespace
RECURSIVE RStrip(_)
RStrip(s) ==
    IF s # <<>> /\ IsSpace(s[Len(s)]) THEN RStrip(SubSeq(s, 1, Len(s) - 1)) ELSE s

Trim(s) == RStrip(LStrip(s))

BeginsWithSelect(s) == startswith(lower(s), <<"s","e","l","e","c","t">>)

DenyWords ==
    << <<"i","n","s","e","r","t">>, <<"u","p","d","a","t","e">>,
       <<"d","e","l","e","t","e">>, <<"d","r","o","p">>,
       <<"a","l","t","e","r">>, <<"t","r","u","n","c","a","t","e">> >>

DenyListed(s) ==
    LET folded == lower(s)
    IN  \E k \in 1 .. Len(DenyWords) : contains(folded, DenyWords[k])

UpperCase == <<"A","B","C","D","E","F","G","H","I","J","K","L","M",
               "N","O","P","Q","R","S","T","U","V","W","X","Y","Z">>
LowerCase == <<"a","b","c","d","e","f","g","h","i","j","k","l","m",
               "n","o","p","q","r","s","t","u","v","w","x","y","z">>

IsWordChar(c) ==
    \/ \E k \in 1 .. 26 : c = LowerCase[k] \/ c = UpperCase[k]
    \/ \E k \in 1 .. 10 : c = DigitChars[k]
    \/ c = "_"

\* word occurs in s as a whole token: not inside a longer identifier
HasToken(s, word) ==
    \E k \in 1 .. (Len(s) - Len(word) + 1) :
        /\ SubSeq(s, k, k + Len(word) - 1) = word
        /\ k = 1 \/ ~IsWordChar(s[k - 1])
        /\ k + Len(word) > Len(s) \/ ~IsWordChar(s[k + Len(word)])

IsRefusal(r) == r = StrResult(NOT_SELECT_MSG) \/ r = StrResult(BLOCKED_MSG)

\* the invocation never reached the Executor: no session, no statement
NeverExecuted(i) ==
    /\ executed[i] = <<>>
    /\ session[i] = 0
    /\ answer[i] = NoAnswer

\* the invocation ends by raising
Raises(r) == r.kind \in { "error", "cancelled" }

(***************************************************************************)
(* C1.  A statement that does not begin with "select" (in any letter case, *)
(* after trimming whitespace) is answered with a policy-refusal string,    *)
(* and the Executor is never invoked for that call: no session is          *)
(* acquired and no statement is executed.                                  *)
(***************************************************************************)
C1_NonSelectRefused ==
    \A i \in Calls :
        (pc[i] # "idle" /\ ~BeginsWithSelect(Trim(args[i].sql)))
            => /\ pc[i] = "done"
               /\ IsRefusal(result[i])
               /\ NeverExecuted(i)

\* "drop x" was sent, refused as not a SELECT, and nothing was executed
C1_Witness ==
    \E i \in Calls :
        /\ pc[i] = "done"
        /\ args[i].sql = <<"d","r","o","p"," ","x">>
        /\ result[i] = StrResult(NOT_SELECT_MSG)
        /\ NeverExecuted(i)
        /\ store = 0

(***************************************************************************)
(* C2.  A statement whose case-folded text contains insert, update,        *)
(* delete, drop, alter or truncate at any position is answered with a      *)
(* policy-refusal string, and the Executor is never invoked.               *)
(***************************************************************************)
C2_DenyListedRefused ==
    \A i \in Calls :
        (pc[i] # "idle" /\ DenyListed(args[i].sql))
            => /\ pc[i] = "done"
               /\ IsRefusal(result[i])
               /\ NeverExecuted(i)

\* a SELECT followed by a deny-listed word written in capitals was refused
\* as blocked
C2_Witness ==
    \E i \in Calls :
        /\ pc[i] = "done"
        /\ args[i].sql = <<"s","e","l","e","c","t","U","P","D","A","T","E">>
        /\ result[i] = StrResult(BLOCKED_MSG)
        /\ NeverExecuted(i)

(***************************************************************************)
(* C3.  The gate guarantees that the store cannot be mutated: after any    *)
(* sequence of run_safe_query calls the store is the same as before.       *)
(***************************************************************************)
C3_StoreNeverMutated == [][store' = store]_vars

(***************************************************************************)
(* C4.  An accepted statement that lacks the token limit is handed to the  *)
(* Executor as the original text followed by " LIMIT <n>"; one that        *)
(* contains the token limit is handed over unmodified.                     *)
(***************************************************************************)
C4_LimitByToken ==
    \A i \in Calls :
        executed[i] # <<>> =>
            executed[i][1] =
                IF HasToken(lower(args[i].sql), <<"l","i","m","i","t">>)
                THEN args[i].sql
                ELSE args[i].sql \o <<" ","L","I","M","I","T"," ">>
                                 \o int_str(args[i].limit)

(***************************************************************************)
(* C6.  In every envelope the length of columns equals the number of keys  *)
(* of every record of data, data has one record per row of the Query       *)
(* Result, and the records are in the order of the rows.                   *)
(***************************************************************************)
C6_EnvelopeArity ==
    \A i \in Calls :
        result[i].kind = "envelope" =>
            LET e == result[i].envelope
                rows == answer[i].rows
            IN  /\ Len(e.data) = Len(rows)
                /\ \A r \in 1 .. Len(e.data) :
                    /\ Cardinality(DOMAIN e.data[r]) = Len(e.columns)
                    /\ \A c \in 1 .. Len(e.columns) :
                        e.data[r][e.columns[c]] = rows[r][c]

(***************************************************************************)
(* C7.  When the Executor returns zero rows the call returns the plain     *)
(* informational string, which is neither refusal string; when it returns  *)
(* rows the call returns an envelope; no envelope has an empty data list.  *)
(***************************************************************************)
C7_EmptyResultDistinct ==
    /\ ~IsRefusal(StrResult(NO_RESULTS_MSG))
    /\ \A i \in Calls :
        /\ result[i].kind = "envelope" => result[i].envelope.data # <<>>
        /\ (pc[i] = "done" /\ answer[i].kind = "rows" /\ ~Raises(result[i]))
            => IF answer[i].rows = <<>>
               THEN result[i] = StrResult(NO_RESULTS_MSG)
               ELSE result[i].kind = "envelope"

\* an accepted statement was executed, the store returned zero rows and
\* the call returned the informational string
C7_Witness ==
    \E i \in Calls :
        /\ pc[i] = "done"
        /\ answer[i].kind = "rows"
        /\ answer[i].rows = <<>>
        /\ result[i] = StrResult(NO_RESULTS_MSG)

(***************************************************************************)
(* C8.  When the Executor fails, the invocation ends by raising (never a   *)
(* string, an envelope or a plain return), and every invocation hands at   *)
(* most one statement to the Executor.                                     *)
(***************************************************************************)
C8_FailurePropagates ==
    \A i \in Calls :
        /\ Len(executed[i]) <= 1
        /\ answer[i] = FailAnswer => Raises(result[i])
        /\ (pc[i] = "done" /\ answer[i] = FailAnswer /\ result[i] # CancelledResult)
            => result[i].kind = "error"

\* the Executor failed once, the rollback ended, and the call raised the
\* store's error
C8_Witness ==
    \E i \in Calls :
        /\ pc[i] = "done"
        /\ answer[i] = FailAnswer
        /\ result[i] = ErrorResult("StoreExecutionError")
        /\ Len(executed[i]) = 1

(***************************************************************************)
(* C10.  A statement that begins with "select" (any letter case) after     *)
(* its leading whitespace is removed passes the read-only gate: it is not  *)
(* refused as "only SELECT permitted".                                     *)
(***************************************************************************)
C10_LeadingWhitespaceAccepted ==
    \A i \in Calls :
        (pc[i] # "idle" /\ BeginsWithSelect(LStrip(args[i].sql)))
            => result[i] # StrResult(NOT_SELECT_MSG)

(***************************************************************************)
(* C5.  Every invocation that acquired a session has closed it when it     *)
(* ends, on every path: return, empty result, Executor failure (the        *)
(* rollback comes first, on the still open session) and cancellation.      *)
(* When no invocation is in flight, no session is open.                    *)
(***************************************************************************)
C5_SessionReleased ==
    /\ \A i \in Calls :
        /\ (pc[i] = "done" /\ session[i] # 0) => sessions[session[i]] = "closed"
        /\ pc[i] = "rollback" => sessions[session[i]] = "open"
        /\ pc[i] = "idle" => session[i] = 0
    /\ (\A i \in Calls : pc[i] \in { "idle", "done" })
        => \A id \in SessionIds : sessions[id] # "open"

\* a call was cancelled by the transport while another one had failed; both
\* have ended and both sessions are closed
C5_Witness ==
    \E i, j \in Calls :
        /\ pc[i] = "done" /\ result[i] = CancelledResult
        /\ pc[j] = "done" /\ result[j] = ErrorResult("StoreExecutionError")
        /\ session[i] # 0 /\ sessions[session[i]] = "closed"
        /\ session[j] # 0 /\ sessions[session[j]] = "closed"

(***************************************************************************)
(* C9.  Invocations in flight are isolated: no session is used by two      *)
(* invocations; a step of one invocation (a failure and a rollback         *)
(* included) changes neither the state, the outcome nor the session of     *)
(* another; the engine and the session factory, once created, are never    *)
(* changed.                                                                *)
(***************************************************************************)
Local(i) == << pc[i], args[i], sql[i], executed[i], session[i], answer[i], result[i] >>

C9_OwnSession ==
    \A i, j \in Calls :
        (i # j /\ session[i] # 0 /\ session[j] # 0) => session[i] # session[j]

C9_NoInterference ==
    /\ \A i, j \in Calls : (i # j /\ Local(i)' # Local(i)) => Local(j)' = Local(j)
    /\ \A i \in Calls :
        (Local(i)' = Local(i) /\ session[i] # 0)
            => sessions'[session[i]] = sessions[session[i]]

C9_FactoryCreatedOnce ==
    /\ AsyncSessionLocal # "None" => AsyncSessionLocal' = AsyncSessionLocal
    /\ engine # "None" => engine' = engine

C9_Isolation ==
    /\ []C9_OwnSession
    /\ [][C9_NoInterference /\ C9_FactoryCreatedOnce]_vars

\* one call is rolling back after an Executor failure while another, on its
\* own session, has its envelope and is closing
C9_Witness ==
    \E i, j \in Calls :
        /\ pc[i] = "rollback" /\ answer[i] = FailAnswer
        /\ pc[j] = "closing" /\ result[j].kind = "envelope"
        /\ session[i] # session[j]
        /\ AsyncSessionLocal = "Factory"

(***************************************************************************)
(* C11.  In visual_report, every numeric row value (a number, or a string  *)
(* that reads as one, with or without a fractional part) in a column       *)
(* formatted "currency" becomes that number rounded to 2 decimal places,   *)
(* as a float ("19.989" gives 19.99); in a column formatted "number" it    *)
(* becomes the integer value of the input, as an int ("7.0" gives 7), and  *)
(* the call returns an envelope and does not fail; a value in a column     *)
(* with no entry or an unrecognized kind is passed through unmodified.     *)
(***************************************************************************)
Distance(a, b) == IF a >= b THEN a - b ELSE b - a

\* the kind format_columns gives to the 0-based column j, "" for none
KindOf(format_columns, j) ==
    IF j \in DOMAIN format_columns THEN format_columns[j] ELSE ""

IsNumeric(v) ==
    \/ v.type = "int"
    \/ v.type = "float"
    \/ v.type = "str" /\ is_float_literal(v.val)

\* the number v stands for, in thousandths
Thousandths(v) ==
    IF v.type = "int" THEN v.val * 1000
    ELSE IF v.type = "float" THEN v.val
    ELSE float_literal(v.val)

\* out is what the claim says the value v becomes under the kind
Coerced(v, kind, out) ==
    IF kind = "currency"
    THEN /\ out.type = "float"
         /\ out.val % 10 = 0
         /\ Distance(out.val, Thousandths(v)) <= 5
    ELSE IF kind = "number"
    THEN /\ out.type = "int"
         /\ Distance(out.val * 1000, Thousandths(v)) < 1000
    ELSE out = v

\* every value in a "currency" or "number" column of the call is numeric
NumericWhereFormatted(a) ==
    \A r \in 1 .. Len(a.rows), c \in 1 .. Len(a.columns) :
        KindOf(a.format_columns, c - 1) \in { "currency", "number" }
            => IsNumeric(a.rows[r][c])

C11_FormatCoercion ==
    \A i \in Calls :
        (pc[i] = "done" /\ args[i].tool = "visual_report"
                       /\ NumericWhereFormatted(args[i]))
            => /\ result[i].kind = "envelope"
               /\ \A r \in 1 .. Len(args[i].rows), c \in 1 .. Len(args[i].columns) :
                    Coerced(args[i].rows[r][c],
                            KindOf(args[i].format_columns, c - 1),
                            result[i].envelope.data[r][args[i].columns[c]])

(***************************************************************************)
(* C12.  Every registered tool (list_tables, list_columns, the top_*       *)
(* reports, films_by_actor, top_rented_movies, top_profitable_categories,  *)
(* run_safe_query), for every argument value, returns exactly one of: an   *)
(* envelope built by visual_report that carries title, description,        *)
(* columns, data and markdown; a plain string; a propagated error.  No     *)
(* tool returns any other structure.                                       *)
(***************************************************************************)
EnvelopeKeys == { "title", "description", "columns", "data", "markdown" }

\* r is a value built by visual_report and it carries the five fields
IsEnvelope(r) == r.kind = "envelope" /\ DOMAIN r.envelope = EnvelopeKeys

C12_UniformReturnShape ==
    \A i \in Calls :
        result[i] # NoResult
            => \/ IsEnvelope(result[i])
               \/ result[i].kind = "str"
               \/ Raises(result[i])

====
